---------------------------- MODULE Spec2Model ----------------------------
(***************************************************************************)
(* A model of tower-sessions-surrealdb-store (src/src/lib.rs): the         *)
(* SurrealdbStore session store, its record codec and the requests it      *)
(* sends to the database.                                                  *)
(*                                                                         *)
(* The database holds the counter document (table sessions_latest_id, key  *)
(* "counter") and the session rows (table sessions).  Callers run create,  *)
(* save, load, delete, delete_expired and create_data_model concurrently.  *)
(* All but create send one request, which the database executes in one     *)
(* step: each is one action, from the call to its return.  The query of    *)
(* create is a transaction of several statements, which the database       *)
(* interleaves with other requests: create is one action per statement.  A *)
(* call that has returned is looked at (pc = "returned") before anything   *)
(* else happens; that step changes nothing of the store.                   *)
(*                                                                         *)
(* Time is counted in ticks; SubPerMicro ticks make one microsecond.       *)
(* A request either fails as a whole (the database reports an error and    *)
(* nothing of it is applied) or is executed and answered.                  *)
(*                                                                         *)
(* Spec starts from an empty database; SpecOverflow starts from a counter  *)
(* one short of the largest i64.                                           *)
(***************************************************************************)
EXTENDS Integers, Sequences, FiniteSets, TLC

\* ------------------------------------------------------------- bounds
MaxCounter == 2          \* creates are started only while the counter can stay <= MaxCounter
MaxTime == 3             \* the server clock runs from 0 to MaxTime ticks
SubPerMicro == 3         \* clock ticks per microsecond (scaled: 1000 ns)
MicrosPerSecond == 2     \* microseconds per second (scaled: 10^6)
Rfc3339Max == 9          \* last instant (ticks) whose year RFC 3339 can write (scaled: year 9999)
I64_MAX == 4             \* largest i64 (scaled: 2^63 - 1)

\* The concurrent callers, and the payload each puts in its records.
Callers == {1, 2}
Payload(c) == IF c = 1 THEN "k1" ELSE "k2"
Payloads == {Payload(c) : c \in Callers}
\* The expiry of a record given to create and to save: one that rounds down
\* to the microsecond, one that rounds up, one that RFC 3339 cannot write.
ExpiryInputs == {1, 2, Rfc3339Max + 1}
SaveExpiryInputs == {2, Rfc3339Max + 1}
\* The identifier of a record given to create, and the identifiers given to
\* save, load and delete: the first keys, and one outside the i64 range.
PreIds == {0}
Keys == {1, 2}
IdInputs == Keys \cup {-1, I64_MAX + 1, -I64_MAX - 2}

Records == [id : PreIds \cup IdInputs, data : Payloads, expiry_date : ExpiryInputs]
NoRecord == [id |-> 0, data |-> "", expiry_date |-> 0]

\* ------------------------------------------------------- database values
\* A value of the database is typed; values of different types compare by type.
Datetime(t) == [type |-> "datetime", v |-> t]
Number(n) == [type |-> "number", v |-> n]

TypeOrder(ty) == CASE ty = "number" -> 3 [] ty = "datetime" -> 6

ValueGT(a, b) ==
    IF a.type = b.type THEN a.v > b.v ELSE TypeOrder(a.type) > TypeOrder(b.type)

ValueLE(a, b) ==
    IF a.type = b.type THEN a.v <= b.v ELSE TypeOrder(a.type) < TypeOrder(b.type)

\* time::unix(d): the seconds since the epoch, a number
TimeUnix(d) == Number(d.v \div (SubPerMicro * MicrosPerSecond))

\* ---------------------------------------------------------------- codec
Err(kind) == [ok |-> FALSE, kind |-> kind]

\* expiry_date.format(&Rfc3339): every digit of the instant, or an error
\* when the year cannot be written
FormatRfc3339(t) ==
    IF t >= 0 /\ t <= Rfc3339Max THEN [ok |-> TRUE, instant |-> t] ELSE Err("Encode")

ParseChronoMicros(s) == [ok |-> TRUE, instant |-> s.instant - (s.instant % SubPerMicro)]

\* parse::<chrono::DateTime<Utc>>() of the RFC 3339 text
ParseChrono(s) == [ok |-> TRUE, instant |-> s.instant]

\* rmp_serde::to_vec(record): the whole record, identifier included
ToVec(record) == <<record.id, record.data, record.expiry_date>>

\* rmp_serde::from_slice(bytes)
FromSlice(bytes) ==
    IF Len(bytes) = 3
    THEN [ok |-> TRUE, record |-> [id |-> bytes[1], data |-> bytes[2], expiry_date |-> bytes[3]]]
    ELSE Err("Decode")

\* impl TryFrom<&Record> for DatabaseRecord
TryFromRecord(record) ==
    LET interim_datetime_string == FormatRfc3339(record.expiry_date) IN
    IF ~interim_datetime_string.ok THEN Err("Encode")
    ELSE LET chrono_datetime == ParseChrono(interim_datetime_string) IN
         IF ~chrono_datetime.ok THEN Err("Encode")
         ELSE [ok |-> TRUE,
               record |-> ToVec(record),
               expiry_date |-> chrono_datetime.instant]

\* impl TryFrom<DatabaseRecord> for Record
TryFromDatabaseRecord(database_record) == FromSlice(database_record.record)

\* The seconds are written with FORMAT_CONFIG's six decimal digits: the
\* instant rounded to the nearest microsecond.
RoundMicro(t) ==
    LET r == t % SubPerMicro IN
    IF 2 * r >= SubPerMicro THEN t - r + SubPerMicro ELSE t - r

FormatIso8601Truncated(t) ==
    IF t >= 0 /\ t <= Rfc3339Max
    THEN [ok |-> TRUE, instant |-> t - (t % SubPerMicro)]
    ELSE Err("Encode")

\* expiry_date.format(&Iso8601::<{FORMAT_CONFIG}>)
FormatIso8601(t) ==
    IF t >= 0 /\ t <= Rfc3339Max THEN [ok |-> TRUE, instant |-> RoundMicro(t)] ELSE Err("Encode")

\* BASE64_STANDARD_NO_PAD.encode(bytes), and the database's
\* encoding::base64::decode(text)
Base64Encode(bytes) == [b64 |-> bytes]
Base64Decode(text) == text.b64

\* i64::try_from(id.0)
IdTryIntoI64Any(id) == [ok |-> TRUE, id |-> id]

IdTryIntoI64(id) ==
    IF id >= -I64_MAX - 1 /\ id <= I64_MAX THEN [ok |-> TRUE, id |-> id] ELSE Err("Encode")

\* ------------------------------------------------------------- variables
VARIABLES
    counter,     \* the counter document: [exists, num]
    rows,        \* the session table: key -> [expiry_date, record]
    now,         \* the server clock, in ticks
    pc,          \* per caller: "idle", "sent", "upserted", "created", "returned"
    op,          \* per caller: the operation of its call
    rec,         \* per caller: the caller's record (create, save)
    sid,         \* per caller: the identifier argument (load, delete)
    req,         \* per caller: the query of create, in flight
    tx,          \* per caller: the open transaction of its create
    result,      \* per caller: what the call returned
    defined,     \* the tables a DEFINE TABLE statement has defined
    wire,        \* per caller: the requests of its call and the failure of one
    hist,        \* history of the store, read by the properties only
    obs          \* per caller: history of its call, read by the properties only

vars == <<counter, rows, now, pc, op, rec, sid, req, tx, result, defined, wire, hist, obs>>

\* The names the store is constructed with.
sessions_table == "sessions"
sessions_latest_id_table == "sessions_latest_id"

NoDoc == [exists |-> FALSE, num |-> 0]
NoReq == [kind |-> "none"]
NoTx == [open |-> FALSE]
NoResult == [status |-> "none"]
Ok == [status |-> "ok"]
Failed(kind, why) == [status |-> kind, why |-> why]
ErrorResponse == [kind |-> "error"]
NoWire == [requests |-> 0, rejected |-> FALSE]

CounterNum(doc) == IF doc.exists THEN doc.num ELSE 0

\* Option<T>: None is <<>>, Some(x) is <<x>>
None == <<>>
Some(x) == <<x>>

RemoveKey(f, k) == [j \in DOMAIN f \ {k} |-> f[j]]
PutKey(f, k, v) == [j \in DOMAIN f \cup {k} |-> IF j = k THEN v ELSE f[j]]

\* What the properties remember of one call:
\*   rec0     the caller's record when the call started
\*   start    the counter value when create was called
\*   stage    how far create's query had got when the call returned
\*   effect   a statement of create's query has changed the database
\*   present  the row of the call's identifier was there when the call started
\*   expired  ... and its expiry_date had passed
NoObs == [rec0 |-> NoRecord, start |-> 0, stage |-> "idle", effect |-> FALSE,
          present |-> FALSE, expired |-> FALSE]

\* What the properties remember of the store:
\*   issued      the successful creates: [start, id], in the order of their return
\*   created     the keys of the rows a create statement has made
\*   expect      per row key, the record of the last successful create or save
\*               of that key, while no later save or delete of it has been called
\*   deleted     the identifiers, among those load is asked for,
\*               a delete has returned success for
\*   deletedMade ... of a delete executed after a create had made the row
\*   origin      the counter value the behaviour started with
NoHist == [issued |-> << >>, created |-> {}, expect |-> << >>,
           deleted |-> {}, deletedMade |-> {}, origin |-> 0]

Init ==
    /\ counter = NoDoc
    /\ rows = << >>
    /\ now = 0
    /\ pc = [c \in Callers |-> "idle"]
    /\ op = [c \in Callers |-> "none"]
    /\ rec = [c \in Callers |-> NoRecord]
    /\ sid = [c \in Callers |-> 0]
    /\ req = [c \in Callers |-> NoReq]
    /\ tx = [c \in Callers |-> NoTx]
    /\ result = [c \in Callers |-> NoResult]
    /\ defined = {}
    /\ wire = [c \in Callers |-> NoWire]
    /\ hist = NoHist
    /\ obs = [c \in Callers |-> NoObs]

\* No returned call is waiting to be looked at.
Quiet == \A c \in Callers : pc[c] # "returned"

\* The clock of the database server advances.
Tick ==
    /\ Quiet
    /\ now < MaxTime
    /\ now' = now + 1
    /\ UNCHANGED <<counter, rows, pc, op, rec, sid, req, tx, result, defined, wire,
                   hist, obs>>

\* A call starts with the caller's arguments.
Called(c, operation, record, session_id) ==
    /\ Quiet
    /\ pc[c] = "idle"
    /\ op' = [op EXCEPT ![c] = operation]
    /\ sid' = [sid EXCEPT ![c] = session_id]
    /\ obs' = [obs EXCEPT ![c] =
                 [NoObs EXCEPT !.rec0 = record,
                               !.start = CounterNum(counter),
                               !.present = (record.id \in DOMAIN rows
                                            \/ session_id \in DOMAIN rows),
                               !.expired = (\E k \in {record.id, session_id} :
                                              /\ k \in DOMAIN rows
                                              /\ rows[k].expiry_date <= now)]]

\* The call returns; record is what the caller's record is then.
Returned(c, record, res) ==
    /\ pc' = [pc EXCEPT ![c] = "returned"]
    /\ rec' = [rec EXCEPT ![c] = record]
    /\ req' = [req EXCEPT ![c] = NoReq]
    /\ tx' = [tx EXCEPT ![c] = NoTx]
    /\ result' = [result EXCEPT ![c] = res]

\* The requests the call has sent to the database, and whether the database
\* has failed one.
Wire(c, requests, rejected) ==
    wire' = [wire EXCEPT ![c] = [requests |-> requests, rejected |-> rejected]]

\* The caller takes the result and is free for its next call.
Resume(c) ==
    /\ pc[c] = "returned"
    /\ pc' = [pc EXCEPT ![c] = "idle"]
    /\ op' = [op EXCEPT ![c] = "none"]
    /\ rec' = [rec EXCEPT ![c] = NoRecord]
    /\ sid' = [sid EXCEPT ![c] = 0]
    /\ result' = [result EXCEPT ![c] = NoResult]
    /\ obs' = [obs EXCEPT ![c] = NoObs]
    /\ wire' = [wire EXCEPT ![c] = NoWire]
    /\ UNCHANGED <<counter, rows, now, req, tx, defined, hist>>

\* The database executes a request, or fails it as a whole.
Responses(executed) == {executed, ErrorResponse}

\* ------------------------------------------------------------ create
NotInTransaction == FALSE

\* The statements of create's query run between BEGIN TRANSACTION and
\* COMMIT TRANSACTION.
InTransaction == TRUE

\* Addition of two i64 as the database's arithmetic makes it where the build
\* does not check for overflow: the sum wraps around.
AddInt(v, w) == ((v + w + I64_MAX + 1) % (2 * I64_MAX + 2)) - I64_MAX - 1

UpsertNumReset(doc) == [exists |-> TRUE, num |-> 1]

UpsertNumFromZero(doc) == [exists |-> TRUE, num |-> IF doc.exists THEN doc.num + 1 ELSE 0]

\* UPSERT type::thing(<counter table>, "counter") SET num += 1
UpsertNum(doc) == [exists |-> TRUE, num |-> IF doc.exists THEN AddInt(doc.num, 1) ELSE 1]

\* <datetime>"<datetime_string>"
CastDatetime(s) == s.instant

NoCommitConflict(c) == FALSE

\* COMMIT: the transaction fails when another transaction has committed a
\* write of the counter document, or of the row key, since this one began.
CommitConflict(c) ==
    \/ counter # tx[c].base
    \/ tx[c].row[1].key \in DOMAIN rows

\* create, up to the query being sent (lib.rs 308-326)
CallCreate(c) ==
    /\ CounterNum(counter) >= hist.origin
    /\ CounterNum(counter) - hist.origin
         + Cardinality({d \in Callers : pc[d] \in {"sent", "upserted", "created"}})
         < MaxCounter
    /\ \E record \in {r \in Records : r.id \in PreIds /\ r.data = Payload(c)} :
        LET surrealdb_record == TryFromRecord(record)
            datetime_string == FormatIso8601(record.expiry_date)
        IN  /\ Called(c, "create", record, 0)
            /\ IF ~surrealdb_record.ok
               THEN /\ Returned(c, record, Failed("Encode", "record"))
                    /\ Wire(c, 0, FALSE)
               ELSE IF ~datetime_string.ok
               THEN /\ Returned(c, record, Failed("Encode", "datetime_string"))
                    /\ Wire(c, 0, FALSE)
               ELSE /\ pc' = [pc EXCEPT ![c] = "sent"]
                    /\ Wire(c, 1, FALSE)
                    /\ rec' = [rec EXCEPT ![c] = record]
                    /\ req' = [req EXCEPT ![c] =
                                [kind |-> "create",
                                 datetime_string |-> datetime_string,
                                 record_data |-> Base64Encode(surrealdb_record.record)]]
                    /\ UNCHANGED <<tx, result>>
    /\ UNCHANGED <<counter, rows, now, defined, hist>>

CreateOutcomeNoId(record, response) ==
    IF response.kind = "error"
    THEN [record |-> record, result |-> Failed("Backend", "query")]
    ELSE IF response.id = None
    THEN [record |-> record, result |-> Failed("Backend", "no ID was returned")]
    ELSE [record |-> record, result |-> Ok]

\* create, from the response on (lib.rs 326-332): what the caller's record
\* becomes and what the call returns
CreateOutcome(record, response) ==
    IF response.kind = "error"
    THEN [record |-> record, result |-> Failed("Backend", "query")]
    ELSE IF response.id = None
    THEN [record |-> record, result |-> Failed("Backend", "no ID was returned")]
    ELSE [record |-> [record EXCEPT !.id = response.id[1]], result |-> Ok]

ReturnCreate(c, response) ==
    LET out == CreateOutcome(rec[c], response) IN
    /\ Returned(c, out.record, out.result)
    /\ obs' = [obs EXCEPT ![c].stage = pc[c]]
    /\ wire' = [wire EXCEPT ![c].rejected = (response.kind = "error")]
    /\ UNCHANGED <<op, sid>>

\* The row a CREATE statement makes, in the history.
Made(h, key) == [h EXCEPT !.created = @ \cup {key}, !.expect = RemoveKey(@, key)]

\* A successful create, in the history.
Issued(h, c, record) ==
    [h EXCEPT !.issued = Append(@, [start |-> obs[c].start, id |-> record.id]),
              !.expect = IF record.id \in DOMAIN rows'
                         THEN PutKey(@, record.id, [by |-> "create", record |-> record])
                         ELSE @]

\* BEGIN TRANSACTION; UPSERT ... SET num += 1
ExecUpsert(c) ==
    /\ Quiet
    /\ pc[c] = "sent"
    /\ pc' = [pc EXCEPT ![c] = "upserted"]
    /\ IF InTransaction
       THEN /\ tx' = [tx EXCEPT ![c] =
                       [open |-> TRUE, base |-> counter, counter |-> UpsertNum(counter),
                        row |-> None]]
            /\ UNCHANGED <<counter, obs>>
       ELSE /\ counter' = UpsertNum(counter)
            /\ obs' = [obs EXCEPT ![c].effect = TRUE]
            /\ tx' = tx
    /\ UNCHANGED <<rows, now, op, rec, sid, req, result, defined, wire, hist>>

\* CREATE type::thing(<table>, <counter>.num) SET expiry_date = ..., record = ...
ExecCreate(c) ==
    /\ Quiet
    /\ pc[c] = "upserted"
    /\ LET key == IF InTransaction THEN tx[c].counter.num ELSE CounterNum(counter)
           row == [key |-> key,
                   expiry_date |-> CastDatetime(req[c].datetime_string),
                   record |-> Base64Decode(req[c].record_data)]
       IN  IF key \in DOMAIN rows
           THEN \* the record already exists: the statement fails, and with it the
                \* transaction; the call returns
                /\ ReturnCreate(c, ErrorResponse)
                /\ UNCHANGED <<rows, hist>>
           ELSE /\ pc' = [pc EXCEPT ![c] = "created"]
                /\ UNCHANGED <<op, rec, sid, req, result, wire>>
                /\ IF InTransaction
                   THEN /\ tx' = [tx EXCEPT ![c].row = Some(row)]
                        /\ UNCHANGED <<rows, hist, obs>>
                   ELSE /\ tx' = [tx EXCEPT ![c] = [open |-> FALSE, row |-> Some(row)]]
                        /\ rows' = PutKey(rows, key, [expiry_date |-> row.expiry_date,
                                                       record |-> row.record])
                        /\ hist' = Made(hist, key)
                        /\ obs' = [obs EXCEPT ![c].effect = TRUE]
    /\ UNCHANGED <<counter, now, defined>>

\* COMMIT TRANSACTION; the response is the second statement's result, and
\* the call returns
ExecCommit(c) ==
    /\ Quiet
    /\ pc[c] = "created"
    /\ LET row == tx[c].row[1]
           response == [kind |-> "results", id |-> Some(row.key)]
       IN
       IF InTransaction /\ CommitConflict(c)
       THEN /\ ReturnCreate(c, ErrorResponse)
            /\ UNCHANGED <<counter, rows, hist>>
       ELSE /\ ReturnCreate(c, response)
            /\ IF InTransaction
               THEN /\ counter' = tx[c].counter
                    /\ rows' = PutKey(rows, row.key, [expiry_date |-> row.expiry_date,
                                                        record |-> row.record])
                    /\ hist' = Issued(Made(hist, row.key), c, rec'[c])
               ELSE /\ UNCHANGED <<counter, rows>>
                    /\ hist' = Issued(hist, c, rec'[c])
    /\ UNCHANGED <<now, defined>>

\* The database fails create's query: nothing of the open transaction is
\* applied, and the call returns what it makes of the error.
StoreFail(c) ==
    /\ Quiet
    /\ pc[c] \in {"sent", "upserted", "created"}
    /\ ReturnCreate(c, ErrorResponse)
    /\ UNCHANGED <<counter, rows, now, defined, hist>>

\* -------------------------------------------------------------- save
UpdateContentUpsert(table, id, content) == PutKey(table, id, content)

UpdateContentKeep(table, id, content) == table

UpdateContentAll(table, id, content) ==
    IF id \in DOMAIN table THEN [j \in DOMAIN table |-> content] ELSE table

\* update((table, id)).content(record): the row's content is replaced when
\* the row exists, and no row is made when it does not
UpdateContent(table, id, content) ==
    IF id \in DOMAIN table THEN PutKey(table, id, content) ELSE table

UpdateResponseNone(table, id, content) == [kind |-> "results", row |-> None]

\* ... and the response is the row as updated, if any
UpdateResponse(table, id, content) ==
    [kind |-> "results", row |-> IF id \in DOMAIN table THEN Some(content) ELSE None]

\* save, from the response on (lib.rs 343-345)
SaveOutcome(response) ==
    IF response.kind = "error" THEN Failed("Backend", "query")
    ELSE IF response.row = None THEN Failed("Backend", "No record was updated")
    ELSE Ok

\* save (lib.rs 335-346)
Save(c) ==
    \E record \in {r \in Records : /\ r.id \in IdInputs
                                   /\ r.data = Payload(c)
                                   /\ r.expiry_date \in SaveExpiryInputs} :
        LET surrealdb_record == TryFromRecord(record)
            id_i64 == IdTryIntoI64(record.id)
        IN  /\ Called(c, "save", record, 0)
            /\ UNCHANGED <<counter, now, defined>>
            /\ IF ~surrealdb_record.ok
               THEN /\ Returned(c, record, Failed("Encode", "record"))
                    /\ Wire(c, 0, FALSE)
                    /\ UNCHANGED <<rows, hist>>
               ELSE IF ~id_i64.ok
               THEN /\ Returned(c, record, Failed("Encode", "ID was out of range"))
                    /\ Wire(c, 0, FALSE)
                    /\ UNCHANGED <<rows, hist>>
               ELSE LET content == [record |-> surrealdb_record.record,
                                    expiry_date |-> surrealdb_record.expiry_date]
                    IN  \E response \in Responses(UpdateResponse(rows, id_i64.id, content)) :
                          /\ rows' = IF response.kind = "error" THEN rows
                                     ELSE UpdateContent(rows, id_i64.id, content)
                          /\ Returned(c, record, SaveOutcome(response))
                          /\ Wire(c, 1, response.kind = "error")
                          /\ hist' = [hist EXCEPT !.expect =
                                        IF SaveOutcome(response) = Ok
                                        THEN PutKey(@, id_i64.id,
                                                    [by |-> "save", record |-> record])
                                        ELSE RemoveKey(@, id_i64.id)]

\* -------------------------------------------------------------- load
SelectAny(table, id, t) == IF id \in DOMAIN table THEN Some(table[id]) ELSE None

\* select record, expiry_date from type::thing($table, $id)
\*   where expiry_date > time::now()
SelectLive(table, id, t) ==
    IF id \in DOMAIN table /\ ValueGT(Datetime(table[id].expiry_date), Datetime(t))
    THEN Some(table[id])
    ELSE None

LoadOutcomeBlobId(session_id, response) ==
    IF response.kind = "error" THEN Failed("Backend", "query")
    ELSE IF response.row = None THEN [status |-> "ok", value |-> None]
    ELSE LET prelim_record == TryFromDatabaseRecord(response.row[1]) IN
         IF ~prelim_record.ok THEN Failed("Decode", "record")
         ELSE [status |-> "ok", value |-> Some(prelim_record.record)]

LoadOutcomeNotFound(session_id, response) ==
    IF response.kind = "error" THEN Failed("Backend", "query")
    ELSE IF response.row = None THEN Failed("Backend", "Record not found")
    ELSE LET prelim_record == TryFromDatabaseRecord(response.row[1]) IN
         IF ~prelim_record.ok THEN Failed("Decode", "record")
         ELSE [status |-> "ok",
               value |-> Some([prelim_record.record EXCEPT !.id = session_id])]

\* load, from the response on (lib.rs 359-372)
LoadOutcome(session_id, response) ==
    IF response.kind = "error" THEN Failed("Backend", "query")
    ELSE IF response.row = None THEN [status |-> "ok", value |-> None]
    ELSE LET prelim_record == TryFromDatabaseRecord(response.row[1]) IN
         IF ~prelim_record.ok THEN Failed("Decode", "record")
         ELSE [status |-> "ok",
               value |-> Some([prelim_record.record EXCEPT !.id = session_id])]

\* load (lib.rs 348-373)
Load(c) ==
    \E session_id \in Keys :
        /\ Called(c, "load", NoRecord, session_id)
        /\ \E response \in Responses([kind |-> "results",
                                      row |-> SelectLive(rows, session_id, now)]) :
              /\ Returned(c, NoRecord, LoadOutcome(session_id, response))
              /\ Wire(c, 1, response.kind = "error")
        /\ UNCHANGED <<counter, rows, now, defined, hist>>

\* ------------------------------------------------------------ delete
DeleteRowKeep(table, id) == table

\* delete((table, id)): the row is removed; a missing row is no error
DeleteRow(table, id) == RemoveKey(table, id)

DeleteResponse(table, id) ==
    [kind |-> "results", row |-> IF id \in DOMAIN table THEN Some(table[id]) ELSE None]

DeleteOutcomeNotFound(response) ==
    IF response.kind = "error" THEN Failed("Backend", "query")
    ELSE IF response.row = None THEN Failed("Backend", "No record was deleted")
    ELSE Ok

DeleteOutcomeSwallow(response) == Ok

\* delete, from the response on (lib.rs 381-382)
DeleteOutcome(response) ==
    IF response.kind = "error" THEN Failed("Backend", "query") ELSE Ok

\* delete (lib.rs 374-383)
Delete(c) ==
    \E session_id \in IdInputs :
        LET id_i64 == IdTryIntoI64(session_id) IN
        /\ Called(c, "delete", NoRecord, session_id)
        /\ UNCHANGED <<counter, now, defined>>
        /\ IF ~id_i64.ok
           THEN /\ Returned(c, NoRecord, Failed("Encode", "ID was out of range"))
                /\ Wire(c, 0, FALSE)
                /\ UNCHANGED <<rows, hist>>
           ELSE \E response \in Responses(DeleteResponse(rows, id_i64.id)) :
                  /\ rows' = IF response.kind = "error" THEN rows
                             ELSE DeleteRow(rows, id_i64.id)
                  /\ Returned(c, NoRecord, DeleteOutcome(response))
                  /\ Wire(c, 1, response.kind = "error")
                  /\ hist' = IF DeleteOutcome(response) = Ok
                             THEN [hist EXCEPT
                                     !.expect = RemoveKey(@, id_i64.id),
                                     !.deleted = @ \cup ({session_id} \cap Keys),
                                     !.deletedMade = @ \cup (IF id_i64.id \in hist.created
                                                             THEN {session_id} ELSE {})]
                             ELSE [hist EXCEPT !.expect = RemoveKey(@, id_i64.id)]

\* ------------------------------------------------------ delete_expired
SweepMatchesAll(row, t) == TRUE

\* delete $table where expiry_date <= time::unix(time::now())
SweepMatches(row, t) == ValueLE(Datetime(row.expiry_date), TimeUnix(Datetime(t)))

\* ... the rows that are left
Swept(table, t) == [k \in {j \in DOMAIN table : ~SweepMatches(table[j], t)} |-> table[k]]

\* delete_expired, from the response on (lib.rs 294-297)
DeleteExpiredOutcome(response) ==
    IF response.kind = "error" THEN Failed("Backend", "query") ELSE Ok

\* delete_expired (lib.rs 288-298)
DeleteExpired(c) ==
    /\ Called(c, "delete_expired", NoRecord, 0)
    /\ \E response \in Responses([kind |-> "results"]) :
          /\ rows' = IF response.kind = "error" THEN rows ELSE Swept(rows, now)
          /\ Returned(c, NoRecord, DeleteExpiredOutcome(response))
          /\ Wire(c, 1, response.kind = "error")
    /\ UNCHANGED <<counter, now, defined, hist>>

\* --------------------------------------------------- create_data_model
\* DEFINE TABLE IF NOT EXISTS <name> SCHEMAFULL; DEFINE FIELD IF NOT EXISTS ...:
\* a table that is defined already is left as it is
DefineTable(tables, name) == tables \cup {name}

\* The query arrives and the database fails its statements.
StatementsFailed == [kind |-> "results", failed |-> TRUE]

\* create_data_model, from the response on (lib.rs 204-206): a failure of the
\* query as a whole is returned; the results of its statements are not read
CreateDataModelOutcome(response) ==
    IF response.kind = "error" THEN Failed("anyhow", "query") ELSE Ok

\* create_data_model (lib.rs 195-207): the query names the session table only
CreateDataModel(c) ==
    /\ Called(c, "create_data_model", NoRecord, 0)
    /\ \E response \in Responses([kind |-> "results", failed |-> FALSE])
                        \cup {StatementsFailed} :
          /\ defined' = IF response.kind = "error" \/ response.failed THEN defined
                        ELSE DefineTable(defined, sessions_table)
          /\ Returned(c, NoRecord, CreateDataModelOutcome(response))
          /\ Wire(c, 1, response.kind = "error" \/ response.failed)
    /\ UNCHANGED <<counter, rows, now, hist>>

\* A table exists once a statement has defined it, or has written to it.
TableExists(name) ==
    \/ name \in defined
    \/ name = sessions_latest_id_table /\ counter.exists
    \/ name = sessions_table /\ hist.created # {}

\* ---------------------------------------------------------------- next
Next ==
    \/ Tick
    \/ \E c \in Callers :
        \/ CallCreate(c)
        \/ ExecUpsert(c)
        \/ ExecCreate(c)
        \/ ExecCommit(c)
        \/ StoreFail(c)
        \/ Save(c)
        \/ Load(c)
        \/ Delete(c)
        \/ DeleteExpired(c)
        \/ CreateDataModel(c)
        \/ Resume(c)

Spec == Init /\ [][Next]_vars

\* The store after I64_MAX - 1 creates, every row deleted again: the counter
\* is one short of the largest i64.
InitOverflow ==
    /\ counter = [exists |-> TRUE, num |-> I64_MAX - 1]
    /\ rows = << >>
    /\ now = 0
    /\ pc = [c \in Callers |-> "idle"]
    /\ op = [c \in Callers |-> "none"]
    /\ rec = [c \in Callers |-> NoRecord]
    /\ sid = [c \in Callers |-> 0]
    /\ req = [c \in Callers |-> NoReq]
    /\ tx = [c \in Callers |-> NoTx]
    /\ result = [c \in Callers |-> NoResult]
    /\ defined = {sessions_table}
    /\ wire = [c \in Callers |-> NoWire]
    /\ hist = [issued |-> [i \in 1 .. (I64_MAX - 1) |-> [start |-> i - 1, id |-> i]],
               created |-> 1 .. (I64_MAX - 1),
               expect |-> << >>,
               deleted |-> Keys,
               deletedMade |-> 1 .. (I64_MAX - 1),
               origin |-> I64_MAX - 1]
    /\ obs = [c \in Callers |-> NoObs]

SpecOverflow == InitOverflow /\ [][Next]_vars

\* ------------------------------------------------------------ properties
\* Caller c's call of the operation has returned.
Ret(c, operation) == pc[c] = "returned" /\ op[c] = operation

\* Caller c's call of the operation is made and returns in this step.
Step(c, operation) == pc[c] = "idle" /\ pc'[c] = "returned" /\ op'[c] = operation

\* The call returned what it makes of a request the database failed.
DbFailure == Failed("Backend", "query")

Loaded(value) == [status |-> "ok", value |-> value]

\* C1: every create that returns success assigns an identifier different
\* from the identifier of every other successful create, whatever the
\* interleaving with other creates and with save/load/delete/delete_expired.
C1_DistinctIds ==
    \A i, j \in DOMAIN hist.issued :
        i # j => hist.issued[i].id # hist.issued[j].id

\* Two creates that were both called while the counter was absent have
\* both succeeded.
C1_Witness ==
    /\ Len(hist.issued) = 2
    /\ hist.issued[1].start = 0
    /\ hist.issued[2].start = 0

\* C2: when creates that started at counter value k (0 when the counter
\* document is absent) have all succeeded and the counter is k plus their
\* number, the identifiers they assigned are exactly k+1 .. k+N; the first
\* successful create of a store without counter document makes the
\* document and assigns identifier 1.
C2_ContiguousIds ==
    /\ \A S \in SUBSET DOMAIN hist.issued : \A k \in 0 .. MaxCounter :
          ( /\ S # {}
            /\ \A i \in S : hist.issued[i].start = k
            /\ CounterNum(counter) = k + Cardinality(S) )
          => {hist.issued[i].id : i \in S} = (k + 1) .. (k + Cardinality(S))
    /\ hist.issued # << >> => (hist.issued[1].id = 1 /\ counter.exists)

\* A create called while the counter was absent returns with identifier 2:
\* it ran concurrently with the create that was assigned 1.
C2_Witness ==
    \E c \in Callers :
        /\ Ret(c, "create")
        /\ result[c] = Ok
        /\ obs[c].start = 0
        /\ rec[c].id = 2
        /\ CounterNum(counter) = 2

\* C3: the counter increment and the row creation of a create commit
\* together or not at all: after every step the rows that creates have made
\* are exactly those of the counter values reached, and a create that
\* returns an error has changed neither the counter nor the rows.
C3_AllOrNothing ==
    [][ /\ hist'.created = 1 .. CounterNum(counter')
        /\ \A c \in Callers :
              ( /\ op[c] = "create"
                /\ pc[c] # "returned"
                /\ pc'[c] = "returned"
                /\ result'[c] # Ok )
              => (counter' = counter /\ rows' = rows /\ ~obs'[c].effect)
      ]_vars

\* A create whose transaction had made its row has returned an error,
\* another create having committed meanwhile.
C3_Witness ==
    \E c \in Callers :
        /\ Ret(c, "create")
        /\ result[c] = DbFailure
        /\ obs[c].stage = "created"
        /\ CounterNum(counter) > obs[c].start

\* C4: when create returns an error the caller's record is as it was
\* before the call; when it returns success only the identifier has
\* changed, and it is the key of the row the call has just made.
C4_RecordOnReturn ==
    /\ \A c \in Callers :
          Ret(c, "create") =>
            IF result[c] = Ok
            THEN /\ rec[c] = [obs[c].rec0 EXCEPT !.id = CounterNum(counter)]
                 /\ rec[c].id \in DOMAIN rows
                 /\ rows[rec[c].id].record = ToVec(obs[c].rec0)
            ELSE rec[c] = obs[c].rec0
    /\ \A record \in Records :
          LET out == CreateOutcome(record, [kind |-> "results", id |-> None]) IN
          out.record = record /\ out.result.status = "Backend"

\* A create whose CREATE statement failed, or was failed, has returned.
C4_Witness ==
    \E c \in Callers :
        /\ Ret(c, "create")
        /\ result[c].status = "Backend"
        /\ obs[c].stage = "upserted"
        /\ rec[c] \in Records

\* The record that a load of caller c's identifier is expected to return:
\* the one of the last successful create or save of it, no save or delete
\* of it having been called since.
Expected(c, by) ==
    IF sid[c] \in DOMAIN hist.expect /\ hist.expect[sid[c]].by = by
    THEN Some(hist.expect[sid[c]].record)
    ELSE None

C6_SaveThenLoad ==
    \A c \in Callers :
        ( /\ Ret(c, "load")
          /\ Expected(c, "save") # None
          /\ now < Expected(c, "save")[1].expiry_date
          /\ result[c] # DbFailure )
        => result[c] = Loaded(Expected(c, "save"))

\* A load has returned the record of a save, whose expiry is not the one
\* a create can have stored.
C6_Witness ==
    \E c \in Callers :
        /\ Ret(c, "load")
        /\ Expected(c, "save") # None
        /\ result[c] = Loaded(Expected(c, "save"))
        /\ rows[sid[c]].expiry_date # RoundMicro(rows[sid[c]].expiry_date)

\* The record of a save can be encoded and its identifier is an i64.
Encodable(record) == TryFromRecord(record).ok /\ IdTryIntoI64(record.id).ok

\* C7, as the spec states it: save(r) for an identifier without a row
\* returns a Backend error, makes no row and changes neither the session
\* table nor the counter.
C7_SaveAbsent_Stated ==
    [][ \A c \in Callers :
          (Step(c, "save") /\ rec'[c].id \notin DOMAIN rows)
          => (result'[c].status = "Backend" /\ rows' = rows /\ counter' = counter)
      ]_vars

\* C7, amended: save(r) for an identifier without a row returns an error,
\* makes no row and changes neither the session table nor the counter; the
\* error is an Encode error when r cannot be encoded or its identifier is
\* outside the i64 range, and a Backend error otherwise.
C7_SaveAbsent ==
    [][ \A c \in Callers :
          (Step(c, "save") /\ rec'[c].id \notin DOMAIN rows)
          => /\ result'[c].status = IF Encodable(rec'[c]) THEN "Backend" ELSE "Encode"
             /\ rows' = rows
             /\ counter' = counter
      ]_vars

\* A save of an identifier whose row had been deleted has returned the
\* error of an update that found no row.
C7_Witness ==
    \E c \in Callers :
        /\ Ret(c, "save")
        /\ rec[c].id \in hist.deletedMade
        /\ ~obs[c].present
        /\ result[c] = Failed("Backend", "No record was updated")

\* C8, as the spec states it: once delete(id) has returned success, every
\* later load(id) returns null (unless the database fails the load).
C8_DeleteThenLoad_Stated ==
    \A c \in Callers :
        (Ret(c, "load") /\ sid[c] \in hist.deleted /\ result[c] # DbFailure)
        => result[c] = Loaded(None)

\* C8, amended: once delete(id) has returned success for an identifier
\* that a create had assigned before, every later load(id) returns null,
\* whatever creates, saves, deletes and sweeps come after the delete
\* (unless the database fails the load).
C8_DeleteThenLoad ==
    \A c \in Callers :
        (Ret(c, "load") /\ sid[c] \in hist.deletedMade /\ result[c] # DbFailure)
        => result[c] = Loaded(None)

\* A load of a deleted identifier has returned null after another create
\* has succeeded.
C8_Witness ==
    \E c \in Callers :
        /\ Ret(c, "load")
        /\ sid[c] = 1
        /\ sid[c] \in hist.deletedMade
        /\ result[c] = Loaded(None)
        /\ CounterNum(counter) = 2

\* C9, as the spec states it: delete(id) for an identifier without a row
\* returns success and leaves the store unchanged (unless the database
\* fails the request).
C9_DeleteAbsent_Stated ==
    [][ \A c \in Callers :
          (Step(c, "delete") /\ sid'[c] \notin DOMAIN rows)
          => /\ rows' = rows
             /\ counter' = counter
             /\ result'[c] # DbFailure => result'[c] = Ok
      ]_vars

\* C9, amended: delete(id) for an identifier without a row leaves the
\* store unchanged, and returns success when the identifier is within the
\* i64 range (unless the database fails the request); outside that range
\* it returns an Encode error.
C9_DeleteAbsent ==
    [][ \A c \in Callers :
          (Step(c, "delete") /\ sid'[c] \notin DOMAIN rows)
          => /\ rows' = rows
             /\ counter' = counter
             /\ result'[c] # DbFailure =>
                  result'[c].status = IF IdTryIntoI64(sid'[c]).ok THEN "ok" ELSE "Encode"
      ]_vars

\* A second delete of an identifier has returned success.
C9_Witness ==
    \E c \in Callers :
        /\ Ret(c, "delete")
        /\ sid[c] \in hist.created
        /\ ~obs[c].present
        /\ result[c] = Ok

\* C10: a load never returns a record whose stored expiry_date is at or
\* before the time of the database; for a row that is there but expired
\* it returns null, no error (unless the database fails the load), and it
\* removes no row.
C10_LazyExpiry ==
    [][ \A c \in Callers :
          Step(c, "load") =>
            /\ rows' = rows
            /\ counter' = counter
            /\ (result'[c].status = "ok" /\ result'[c].value # None)
                 => (sid'[c] \in DOMAIN rows /\ rows[sid'[c]].expiry_date > now)
            /\ ( /\ sid'[c] \in DOMAIN rows
                 /\ rows[sid'[c]].expiry_date <= now
                 /\ result'[c] # DbFailure )
                 => result'[c] = Loaded(None)
      ]_vars

\* A load of a row that is there and expired has returned null.
C10_Witness ==
    \E c \in Callers :
        /\ Ret(c, "load")
        /\ sid[c] \in DOMAIN rows
        /\ rows[sid[c]].expiry_date <= now
        /\ result[c] = Loaded(None)

\* C11: when delete_expired returns success, every row whose expiry_date was
\* at or before the server time of the sweep has been removed from the table.
C11_SweepRemovesExpired ==
    [][\A c \in Callers :
         (Step(c, "delete_expired") /\ result'[c] = Ok)
         => \A k \in DOMAIN rows :
              rows[k].expiry_date <= now => k \notin DOMAIN rows']_vars

\* C12: delete_expired, whatever else is in flight, neither removes nor alters
\* a row whose expiry_date is in the future at the time of the sweep, adds no
\* row and leaves the counter alone: what load finds for any identifier is the
\* same after the sweep as before it.
C12_SweepKeepsLive ==
    [][\A c \in Callers :
         Step(c, "delete_expired")
         => /\ counter' = counter
            /\ DOMAIN rows' \subseteq DOMAIN rows
            /\ \A k \in DOMAIN rows :
                 rows[k].expiry_date > now => k \in DOMAIN rows' /\ rows'[k] = rows[k]
            /\ \A k \in Keys :
                 /\ SelectLive(rows, k, now) # None
                    => SelectLive(rows', k, now') = SelectLive(rows, k, now)
                 /\ SelectLive(rows, k, now) # None
                    => LoadOutcome(k, [kind |-> "results", row |-> SelectLive(rows', k, now')])
                         = LoadOutcome(k, [kind |-> "results", row |-> SelectLive(rows, k, now)])]_vars

\* A sweep has returned success while another caller's create was in flight,
\* and a row that was live at the sweep is in the table.
C12_Witness ==
    \E c, d \in Callers :
        /\ Ret(c, "delete_expired") /\ result[c] = Ok
        /\ pc[d] \in {"upserted", "created"}
        /\ \E k \in DOMAIN rows : rows[k].expiry_date > now

\* C13: save and delete look at the presence of the row, not at its expiry.
\* For a row that is in the table with its expiry_date passed, save(r) of a
\* record that can be encoded succeeds (it reports no missing row) and puts r's
\* payload and expiry in the row, as it does for a live row, and delete(id)
\* removes the row and returns success - unless the database fails the request.
C13_PresenceNotLiveness ==
    [][\A c \in Callers :
         /\ (/\ Step(c, "save")
             /\ rec'[c].id \in DOMAIN rows
             /\ Encodable(rec'[c])
             /\ result'[c] # DbFailure)
            => /\ result'[c] = Ok
               /\ rows' = PutKey(rows, rec'[c].id,
                                 [record |-> ToVec(rec'[c]),
                                  expiry_date |-> rec'[c].expiry_date])
         /\ (/\ Step(c, "delete")
             /\ sid'[c] \in DOMAIN rows
             /\ result'[c] # DbFailure)
            => /\ result'[c] = Ok
               /\ rows' = RemoveKey(rows, sid'[c])]_vars

\* A save has replaced a row whose expiry had passed.
C13_Witness ==
    \E c \in Callers :
        /\ Ret(c, "save") /\ result[c] = Ok
        /\ obs[c].present /\ obs[c].expired
        /\ rows[rec[c].id].record = ToVec(rec[c])

\* A delete has removed a row whose expiry had passed.
C13_WitnessDelete ==
    \E c \in Callers :
        /\ Ret(c, "delete") /\ result[c] = Ok
        /\ obs[c].present /\ obs[c].expired
        /\ sid[c] \notin DOMAIN rows

\* C14 as stated: over any sequence of operations a row follows
\* absent -> live -> expired-but-present -> absent only: no step moves a row
\* from expired-but-present back to live, no row enters the table already
\* expired, and a row that has left the table never comes back.
C14_Lifecycle_Stated ==
    [][\A k \in Keys :
         /\ (k \in DOMAIN rows /\ rows[k].expiry_date <= now /\ k \in DOMAIN rows')
            => rows'[k].expiry_date <= now'
         /\ (k \notin DOMAIN rows /\ k \in DOMAIN rows')
            => rows'[k].expiry_date > now'
         /\ (k \in hist.created /\ k \notin DOMAIN rows)
            => k \notin DOMAIN rows']_vars

\* C14, amended: a row enters the table only by a successful create, with
\* whatever expiry the record carries, so possibly expired already; a row in
\* the table changes only by a successful save of its identifier, which can
\* move it from expired-but-present back to live; a row leaves the table only
\* by delete or by the sweep; and a row that has left the table never comes
\* back.
C14_Lifecycle ==
    [][\A k \in Keys :
         /\ (k \notin DOMAIN rows /\ k \in DOMAIN rows')
            => /\ k \notin hist.created
               /\ \E c \in Callers :
                    /\ op[c] = "create" /\ pc[c] = "created" /\ pc'[c] = "returned"
                    /\ result'[c] = Ok /\ rec'[c].id = k
         /\ (k \in DOMAIN rows /\ k \in DOMAIN rows' /\ rows'[k] # rows[k])
            => \E c \in Callers :
                 Step(c, "save") /\ rec'[c].id = k /\ result'[c] = Ok
         /\ (k \in DOMAIN rows /\ k \notin DOMAIN rows')
            => \E c \in Callers :
                 \/ Step(c, "delete") /\ sid'[c] = k /\ result'[c] = Ok
                 \/ Step(c, "delete_expired") /\ result'[c] = Ok]_vars

\* A save has moved a row that was expired-but-present back to live.
C14_Witness ==
    \E c \in Callers :
        /\ Ret(c, "save") /\ result[c] = Ok
        /\ obs[c].expired
        /\ rows[rec[c].id].expiry_date > now

C16_WitnessOutside ==
    \E c \in Callers :
        /\ Ret(c, "save") /\ rec[c].id > I64_MAX /\ rec[c].expiry_date <= Rfc3339Max
        /\ result[c].status = "Encode"
        /\ DOMAIN rows # {}

\* The operations of the session store.
StoreOps == {"create", "save", "load", "delete", "delete_expired"}

\* C17: a call of create, save, load, delete or delete_expired sends at most
\* one request to the database; when the database fails that request the call
\* returns a Backend error, having sent nothing more, and never success.
C17_OneRequestNoRetry ==
    \A c \in Callers :
        /\ op[c] \in StoreOps => wire[c].requests <= 1
        /\ (pc[c] = "returned" /\ op[c] \in StoreOps /\ wire[c].rejected)
           => /\ wire[c].requests = 1
              /\ result[c].status = "Backend"
        /\ (pc[c] = "returned" /\ op[c] \in StoreOps /\ result[c].status = "ok")
           => wire[c].requests = 1 /\ ~wire[c].rejected

\* A create whose transaction the database failed at the commit has returned.
C17_Witness ==
    \E c \in Callers :
        /\ Ret(c, "create") /\ obs[c].stage = "created"
        /\ wire[c].rejected /\ wire[c].requests = 1
        /\ result[c] = DbFailure

C18_WitnessDeleted ==
    \E c \in Callers :
        /\ Ret(c, "load") /\ result[c] = Loaded(None)
        /\ sid[c] \in hist.created /\ sid[c] \notin DOMAIN rows

\* C19: create_data_model can be called at any point and any number of times:
\* it leaves the session rows and the counter as they are, a second call
\* changes nothing the first has not, and once it has returned success both
\* the session table and the counter table exist.
C19_DataModelIdempotent ==
    [][\A c \in Callers :
         Step(c, "create_data_model")
         => /\ rows' = rows /\ counter' = counter
            /\ sessions_table \in defined => defined' = defined
            /\ result'[c] = Ok
               => /\ TableExists(sessions_table)'
                  /\ TableExists(sessions_latest_id_table)']_vars

\* C20: whenever load returns a record, the record's identifier is the one
\* load was called with, whatever identifier is serialized in the stored
\* blob - create serializes the identifier the record carried before the
\* server assigned one - and the rest of the record is what the blob holds.
C20_LoadIdAuthoritative ==
    \A c \in Callers :
        (Ret(c, "load") /\ result[c].status = "ok" /\ result[c].value # None)
        => /\ result[c].value[1].id = sid[c]
           /\ sid[c] \in DOMAIN rows
           /\ result[c].value[1] =
                [FromSlice(rows[sid[c]].record).record EXCEPT !.id = sid[c]]

\* A load has returned a record made by create: the blob holds the
\* pre-assignment identifier, the record returned the server-assigned one.
C20_Witness ==
    \E c \in Callers :
        /\ Ret(c, "load") /\ result[c].status = "ok" /\ result[c].value # None
        /\ FromSlice(rows[sid[c]].record).record.id \in PreIds
        /\ result[c].value[1].id = sid[c]
        /\ sid[c] \notin PreIds

\* The instant truncated to the microsecond.
TruncMicro(t) == t - (t % SubPerMicro)

\* The expiry serialized in a row's blob.
BlobExpiry(row) == FromSlice(row.record).record.expiry_date

\* The row was written by create: its blob holds a pre-assignment identifier
\* (save serializes the identifier of the row).
WrittenByCreate(row) == FromSlice(row.record).record.id \in PreIds

C22_NoWrap ==
    [][/\ CounterNum(counter') >= CounterNum(counter)
       /\ \A c \in Callers :
            (/\ op[c] = "create" /\ pc[c] \in {"sent", "upserted", "created"}
             /\ pc'[c] = "returned"
             /\ counter.exists /\ counter.num = I64_MAX)
            => /\ result'[c].status = "Backend"
               /\ rec'[c] = obs[c].rec0
               /\ rows' = rows
               /\ counter' = counter]_vars

\* C23: at any instant every row in the table is either visible to load (its
\* expiry_date is later than the server time) or matched by the predicate of
\* delete_expired, never both and never neither.
C23_LoadSweepPartition ==
    \A k \in DOMAIN rows :
        (SelectLive(rows, k, now) # None) # SweepMatches(rows[k], now)

\* C24: identifiers are never reused: the identifier a successful create
\* assigns is one no earlier create has assigned and no row has ever had,
\* also when that row has since been removed.
C24_NoReuse ==
    [][\A c \in Callers :
         (/\ op[c] = "create" /\ pc[c] # "returned" /\ pc'[c] = "returned"
          /\ result'[c] = Ok)
         => /\ rec'[c].id \notin hist.created
            /\ rec'[c].id \notin hist.deletedMade
            /\ \A i \in DOMAIN hist.issued : hist.issued[i].id # rec'[c].id]_vars

\* A create called after identifier 1 was assigned has succeeded with
\* identifier 2, the row of identifier 1 having been deleted.
C24_Witness ==
    \E c \in Callers :
        /\ Ret(c, "create") /\ result[c] = Ok
        /\ obs[c].start = 1
        /\ rec[c].id = 2
        /\ 1 \in hist.deletedMade
        /\ 1 \notin DOMAIN rows

Others(table, k) == [j \in DOMAIN table \ {k} |-> table[j]]

\* C26: save(r) and delete(id) touch at most the row of their identifier:
\* every other row and the counter are the same after the call as before,
\* whether it succeeds or fails; and a successful create changes nothing but
\* the counter, raised by 1, and the table, to which it adds its one row.
C26_Frame ==
    [][\A c \in Callers :
         /\ Step(c, "save")
            => /\ counter' = counter
               /\ Others(rows', rec'[c].id) = Others(rows, rec'[c].id)
               /\ result'[c] # Ok => rows' = rows
         /\ Step(c, "delete")
            => /\ counter' = counter
               /\ Others(rows', sid'[c]) = Others(rows, sid'[c])
               /\ result'[c] # Ok => rows' = rows
         /\ (/\ op[c] = "create" /\ pc[c] # "returned" /\ pc'[c] = "returned"
             /\ result'[c] = Ok)
            => /\ counter' = [exists |-> TRUE, num |-> CounterNum(counter) + 1]
               /\ rec'[c].id \notin DOMAIN rows
               /\ DOMAIN rows' = DOMAIN rows \cup {rec'[c].id}
               /\ Others(rows', rec'[c].id) = rows
               /\ defined' = defined]_vars

\* A save has replaced the row of identifier 1 with the row of identifier 2,
\* which holds another record, in the table.
C26_Witness ==
    \E c \in Callers :
        /\ Ret(c, "save") /\ result[c] = Ok /\ rec[c].id = 1
        /\ DOMAIN rows = {1, 2}
        /\ rows[1].record = ToVec(rec[c])
        /\ rows[2].record # rows[1].record

====
